---- MODULE Spec2Model ----
(***************************************************************************)
(* Model of the TCP round-robin load balancer of src/src/main.rs: the      *)
(* shared host list and cursor behind their two mutexes, one dispatcher    *)
(* task (load_balance) per accepted connection, and the health monitor     *)
(* task (check_health in a loop).                                          *)
(***************************************************************************)
EXTENDS Integers, Sequences, FiniteSets, TLC

\* Number of dispatcher task slots that can be alive at the same time.
MaxTasks == 2
\* Number of connections the acceptor takes in one run of the model.
MaxRequests == 4
MaxHeaders == 2
MaxBody == 2

\* hosts_urls has three entries (main.rs:217-221).
NumHosts == 3

\* The monitor task; dispatcher tasks are 1..MaxTasks.
Monitor == 0
Dispatchers == 1..MaxTasks
Tasks == Dispatchers \cup {Monitor}
HostIds == 0..(NumHosts - 1)
\* host_stream before a connect has succeeded.
NoHost == -1

VARIABLES
    hosts,          \* hosts[h]: the healthy flag of host h (Host.healthy)
    host_index,     \* the rotation cursor (main.rs:243)
    hosts_lock,     \* set of tasks holding the Mutex around the host list
    index_lock,     \* set of tasks holding the Mutex around the cursor
    pc,             \* pc[d]: position of dispatcher d in load_balance
    failures,       \* failures[d]: the local of load_balance
    request,        \* request[d]: how much of the client request is read
    host_stream,    \* host_stream[d]: the backend d is connected to
    backend_in,     \* backend_in[d]: hosts the request was written to
    response,       \* response[d]: how much of the backend response is read
    client_out,     \* client_out[d]: what was written to the client
    outcome,        \* outcome[d]: which line of 155-159 was logged
    mpc,            \* position of the monitor task
    mi,             \* index of the host the monitor is probing
    mon_log,        \* the health event logged by the monitor's last step
    accepted,       \* number of connections accepted so far
    tried,          \* history: hosts whose connect failed for d's request
    attempts,       \* history: connect attempts made for d's request
    advances,       \* history: cursor advances made for d's request
    all_down,       \* history: every host flagged unhealthy when d got the locks
    sel_from,       \* history: cursor when d got the locks
    pass_from,      \* history: cursor at the start of d's current selection pass
    served,         \* history: hosts routed to since the last health change
    run_cursor,     \* history: cursor at the last health change
    scn,            \* history: route / down / route / up / route events
    conn_hist,      \* history: "none" until a connect is attempted, then
                    \* "failed" until one succeeds, then "routed"
    sent,           \* read_http: the message that was put on the stream
    reader,         \* read_http: reader, the bytes of the stream not yet read
    buf,            \* read_http: buf
    content_length, \* read_http: content_length
    fpc             \* read_http: position in the function

vars == <<hosts, host_index, hosts_lock, index_lock, pc, failures, request,
          host_stream, backend_in, response, client_out, outcome, mpc, mi,
          mon_log, accepted, tried, attempts, advances, all_down, sel_from, pass_from,
          served,
          run_cursor, scn, conn_hist, sent, reader, buf, content_length, fpc>>

dispLocals == <<failures, request, host_stream, backend_in, response,
                client_out, outcome>>
dispHistory == <<tried, attempts, advances, all_down, sel_from, pass_from>>
monVars == <<mpc, mi, mon_log>>
runVars == <<served, run_cursor, scn>>
framerVars == <<sent, reader, buf, content_length, fpc>>

AllHealthy(hs) == \A h \in HostIds : hs[h]
NoneHealthy(hs) == \A h \in HostIds : ~hs[h]

\* No message: read_http is modelled byte by byte further down, on its own.
NoMessage ==
    [start |-> <<>>, headers |-> <<>>, terminated |-> FALSE, tail |-> <<>>]

\* Hosts that start flagged healthy.
InitialHostsHealthy == [h \in HostIds |-> TRUE]

\* initialize_hosts: every host starts with healthy = false.
InitialHosts == [h \in HostIds |-> FALSE]

Init ==
    /\ hosts = InitialHosts
    /\ host_index = 0
    /\ hosts_lock = {}
    /\ index_lock = {}
    /\ pc = [d \in Dispatchers |-> "idle"]
    /\ failures = [d \in Dispatchers |-> 0]
    /\ request = [d \in Dispatchers |-> "none"]
    /\ host_stream = [d \in Dispatchers |-> NoHost]
    /\ backend_in = [d \in Dispatchers |-> {}]
    /\ response = [d \in Dispatchers |-> "none"]
    /\ client_out = [d \in Dispatchers |-> "none"]
    /\ outcome = [d \in Dispatchers |-> "none"]
    /\ mpc = "lock"
    /\ mi = 0
    /\ mon_log = "none"
    /\ accepted = 0
    /\ tried = [d \in Dispatchers |-> {}]
    /\ attempts = [d \in Dispatchers |-> 0]
    /\ advances = [d \in Dispatchers |-> 0]
    /\ all_down = [d \in Dispatchers |-> FALSE]
    /\ sel_from = [d \in Dispatchers |-> 0]
    /\ pass_from = [d \in Dispatchers |-> 0]
    /\ served = <<>>
    /\ run_cursor = 0
    /\ scn = <<>>
    /\ conn_hist = "none"
    /\ sent = NoMessage
    /\ reader = <<>>
    /\ buf = <<>>
    /\ content_length = 0
    /\ fpc = "unused"

(***************************************************************************)
(* The two tokio mutexes.                                                  *)
(***************************************************************************)
\* A lock that is granted whoever holds it.
CanLockAlways(lock) == TRUE

\* Mutex::lock().await completes only when nobody holds the mutex.
CanLock(lock) == lock = {}

\* A guard that is never dropped.
UnlockNothing(lock, t) == lock

\* Dropping the guard.
Unlock(lock, t) == lock \ {t}

(***************************************************************************)
(* History.  served is the current run of undisturbed rotation: it         *)
(* restarts whenever a healthy flag changes value.  scn records the events *)
(* "routed to a with every host healthy", "only a went down", "routed",    *)
(* "only a came back", "routed", and restarts when events leave that       *)
(* pattern.                                                                *)
(***************************************************************************)
OnlyChanged(old, new, a, to) ==
    /\ old[a] # to
    /\ new = [old EXCEPT ![a] = to]

ScnAfterFlags(new) ==
    IF Len(scn) = 1 /\ AllHealthy(hosts) /\ OnlyChanged(hosts, new, scn[1], FALSE)
    THEN Append(scn, "down")
    ELSE IF Len(scn) = 3 /\ OnlyChanged(hosts, new, scn[1], TRUE)
    THEN Append(scn, "up")
    ELSE <<>>

ScnAfterRoute(h) ==
    IF Len(scn) \in {2, 4}
    THEN Append(scn, h)
    ELSE IF AllHealthy(hosts) THEN <<h>> ELSE <<>>

RunAfterFlags(newHosts) ==
    IF newHosts = hosts
    THEN UNCHANGED runVars
    ELSE /\ served' = <<>>
         /\ run_cursor' = host_index
         /\ scn' = ScnAfterFlags(newHosts)

RunAfterRoute(h) ==
    /\ served' = IF AllHealthy(hosts) THEN Append(served, h) ELSE served
    /\ run_cursor' = run_cursor
    /\ scn' = ScnAfterRoute(h)

(***************************************************************************)
(* The acceptor (main.rs:245-262): one task per inbound connection.        *)
(***************************************************************************)
\* A slot is free before its first task and after a task has panicked;
\* a task that returns frees its slot itself.
Accept(d) ==
    /\ pc[d] \in {"idle", "panicked"}
    /\ accepted < MaxRequests
    /\ accepted' = accepted + 1
    /\ pc' = [pc EXCEPT ![d] = "read_request"]
    /\ UNCHANGED <<hosts, host_index, hosts_lock, index_lock, dispLocals,
                   monVars, dispHistory, runVars,
                   conn_hist, framerVars>>

(***************************************************************************)
(* read_http (main.rs:29-94), by what is on the stream.                    *)
(***************************************************************************)
\* The first line on the stream: valid UTF-8 or not.
StartLines == {"text", "binary"}

\* What follows it: a well-formed header block and the whole body; a body
\* shorter than Content-Length; a header line that is not UTF-8 or a
\* Content-Length that is no number; the end of the stream (or a read error)
\* before the blank line.
Remainders == {"complete", "truncated", "malformed", "unterminated"}

\* lines 37-46: with VERBOSE >= 1 the line is decoded and unwrapped.
ReadStartLine(line) ==
    IF line = "binary" THEN "panic" ELSE "partial"

\* lines 49-93: the unwraps of lines 52 and 60 panic; at the end of the
\* stream read_until keeps returning Ok(0) (or Err, line 69, which only
\* prints) and the loop never sees "\r\n";
\* the result of read_exact (line 77) is discarded, so a short body is
\* returned filled up with zeros.
ReadRemainder(rest) ==
    CASE rest = "complete" -> "complete"
      [] rest = "truncated" -> "padded"
      [] rest = "malformed" -> "panic"
      [] rest = "unterminated" -> "spin"

\* read_http has returned a message.
Returned(m) == m \in {"complete", "padded"}

\* A panic inside the task: it unwinds, dropping its locals, its streams and
\* any guard it holds; the runtime and the other tasks go on.
Unwind(d) ==
    /\ pc' = [pc EXCEPT ![d] = "panicked"]
    /\ hosts_lock' = Unlock(hosts_lock, d)
    /\ index_lock' = Unlock(index_lock, d)
    /\ failures' = [failures EXCEPT ![d] = 0]
    /\ host_stream' = [host_stream EXCEPT ![d] = NoHost]
    /\ backend_in' = [backend_in EXCEPT ![d] = {}]
    /\ tried' = [tried EXCEPT ![d] = {}]
    /\ attempts' = [attempts EXCEPT ![d] = 0]
    /\ advances' = [advances EXCEPT ![d] = 0]
    /\ sel_from' = [sel_from EXCEPT ![d] = 0]
    /\ pass_from' = [pass_from EXCEPT ![d] = 0]
    /\ request' = [request EXCEPT ![d] = "none"]
    /\ response' = [response EXCEPT ![d] = "none"]
    /\ UNCHANGED <<hosts, host_index, client_out, outcome, monVars,
                   accepted, all_down, runVars,
                   conn_hist, framerVars>>

\* A reader that returns after the start line.
ReadRequestLineOnly(d) ==
    /\ pc[d] = "read_request"
    /\ request' = [request EXCEPT ![d] = "partial"]
    /\ pc' = [pc EXCEPT ![d] = "lock_index"]
    /\ UNCHANGED <<hosts, host_index, hosts_lock, index_lock, failures,
                   host_stream, backend_in, response, client_out, outcome,
                   monVars, accepted, dispHistory, runVars,
                   conn_hist, framerVars>>

\* read_http(incoming), line 101: the start line first ...
ReadRequestLine(d) ==
    /\ pc[d] = "read_request"
    /\ \E line \in StartLines :
          IF ReadStartLine(line) = "panic"
          THEN Unwind(d)
          ELSE /\ request' = [request EXCEPT ![d] = ReadStartLine(line)]
               /\ pc' = [pc EXCEPT ![d] = "read_request_rest"]
               /\ UNCHANGED <<hosts, host_index, hosts_lock, index_lock,
                              failures, host_stream, backend_in, response,
                              client_out, outcome, monVars, accepted,
                              dispHistory, runVars,
                              conn_hist, framerVars>>

\* ... then the headers and the body; read_http returns the message.
ReadRequestRest(d) ==
    /\ pc[d] = "read_request_rest"
    /\ \E rest \in Remainders :
          IF ReadRemainder(rest) = "panic"
          THEN Unwind(d)
          ELSE /\ IF ReadRemainder(rest) = "spin"
                  THEN /\ request' = request
                       /\ pc' = [pc EXCEPT ![d] = "read_request_spin"]
                  ELSE /\ request' = [request EXCEPT ![d] = ReadRemainder(rest)]
                       /\ pc' = [pc EXCEPT ![d] = "lock_index"]
               /\ UNCHANGED <<hosts, host_index, hosts_lock, index_lock,
                              failures, host_stream, backend_in, response,
                              client_out, outcome, monVars, accepted,
                              dispHistory, runVars,
                              conn_hist, framerVars>>

\* line 104: host_index.lock().await
LockIndex(d) ==
    /\ pc[d] = "lock_index"
    /\ CanLock(index_lock)
    /\ index_lock' = index_lock \cup {d}
    /\ pc' = [pc EXCEPT ![d] = "lock_hosts"]
    /\ UNCHANGED <<hosts, host_index, hosts_lock, dispLocals, monVars,
                   accepted, dispHistory, runVars,
                   conn_hist, framerVars>>

\* line 105: hosts.lock().await, then the first "failures = 0" of line 112.
LockHosts(d) ==
    /\ pc[d] = "lock_hosts"
    /\ CanLock(hosts_lock)
    /\ hosts_lock' = hosts_lock \cup {d}
    /\ failures' = [failures EXCEPT ![d] = 0]
    /\ pc' = [pc EXCEPT ![d] = "select"]
    /\ all_down' = [all_down EXCEPT ![d] = NoneHealthy(hosts)]
    /\ sel_from' = [sel_from EXCEPT ![d] = host_index]
    /\ pass_from' = [pass_from EXCEPT ![d] = host_index]
    /\ UNCHANGED <<hosts, host_index, index_lock, request, host_stream,
                   backend_in, response, client_out, outcome, monVars,
                   accepted, tried, attempts, advances, runVars,
                   conn_hist, framerVars>>

\* A scan that runs one iteration too many.
WhileCondLong(f) == f <= NumHosts

\* line 113: while failures < hosts_lock.len()
WhileCond(f) == f < NumHosts

\* The cursor left where it is: the scan starts at the cursor itself.
NextIndexStay(i) == i

\* The cursor moved two places at a time.
NextIndexSkip(i) == (i + 2) % NumHosts

\* line 116: (*host_index_lock + 1) % hosts_lock.len()
NextIndex(i) == (i + 1) % NumHosts

\* An off-by-one exhaustion test.
ExhaustedLate(f) == f > NumHosts

\* lines 129 and 155: failures >= hosts_lock.len()
Exhausted(f) == f >= NumHosts

\* One evaluation of the while condition and, when it holds, one iteration
\* of the body (lines 113-127).
SelectStep(d) ==
    /\ pc[d] = "select"
    /\ IF WhileCond(failures[d])
       THEN /\ host_index' = NextIndex(host_index)
            /\ advances' = [advances EXCEPT ![d] = @ + 1]
            /\ IF hosts[host_index']
               THEN /\ pc' = [pc EXCEPT ![d] = "check"]
                    /\ failures' = failures
               ELSE /\ pc' = pc
                    /\ failures' = [failures EXCEPT ![d] = @ + 1]
       ELSE /\ host_index' = host_index
            /\ advances' = advances
            /\ pc' = [pc EXCEPT ![d] = "check"]
            /\ failures' = failures
    /\ UNCHANGED <<hosts, hosts_lock, index_lock, request, host_stream,
                   backend_in, response, client_out, outcome, monVars,
                   accepted, tried, attempts, all_down, sel_from, pass_from,
                   runVars,
                   conn_hist, framerVars>>

\* lines 129-131: leave the outer loop when the pass found nobody.
Check(d) ==
    /\ pc[d] = "check"
    /\ pc' = [pc EXCEPT ![d] = IF Exhausted(failures[d]) THEN "report"
                                                          ELSE "connect"]
    /\ UNCHANGED <<hosts, host_index, hosts_lock, index_lock, dispLocals,
                   monVars, accepted, dispHistory, runVars,
                   conn_hist, framerVars>>

\* line 134, Ok arm (137): connected to the host under the cursor.
ConnectOk(d) ==
    /\ pc[d] = "connect"
    /\ host_stream' = [host_stream EXCEPT ![d] = host_index]
    /\ attempts' = [attempts EXCEPT ![d] = @ + 1]
    /\ conn_hist' = "routed"
    /\ pc' = [pc EXCEPT ![d] = "write_request"]
    /\ RunAfterRoute(host_index)
    /\ UNCHANGED <<hosts, host_index, hosts_lock, index_lock, failures,
                   request, backend_in, response, client_out, outcome,
                   monVars, accepted, tried, advances, all_down, sel_from,
                   pass_from,
                   framerVars>>

\* A failed connect that marks the host after the one under the cursor.
MarkNeighbour(hs, h) == [hs EXCEPT ![(h + 1) % NumHosts] = FALSE]

\* A failed connect that leaves the flag as it was.
MarkNothing(hs, h) == hs

\* The flags after line 149: hosts_lock[*host_index_lock].healthy = false.
MarkUnhealthy(hs, h) == [hs EXCEPT ![h] = FALSE]

\* line 134, Err arm (145-150), then back to line 112: failures = 0.
ConnectFail(d) ==
    /\ pc[d] = "connect"
    /\ hosts' = MarkUnhealthy(hosts, host_index)
    /\ attempts' = [attempts EXCEPT ![d] = @ + 1]
    /\ conn_hist' = IF conn_hist = "none" THEN "failed" ELSE conn_hist
    /\ tried' = [tried EXCEPT ![d] = @ \cup {host_index}]
    /\ failures' = [failures EXCEPT ![d] = 0]
    /\ pass_from' = [pass_from EXCEPT ![d] = host_index]
    /\ pc' = [pc EXCEPT ![d] = "select"]
    /\ RunAfterFlags(hosts')
    /\ UNCHANGED <<host_index, hosts_lock, index_lock, request, host_stream,
                   backend_in, response, client_out, outcome, monVars,
                   accepted, advances, all_down, sel_from,
                   framerVars>>

\* line 138: host_stream.write_all(&request)
WriteRequest(d) ==
    /\ pc[d] = "write_request"
    /\ backend_in' = [backend_in EXCEPT ![d] = @ \cup {host_stream[d]}]
    /\ pc' = [pc EXCEPT ![d] = "read_response"]
    /\ UNCHANGED <<hosts, host_index, hosts_lock, index_lock, failures,
                   request, host_stream, response, client_out, outcome,
                   monVars, accepted, dispHistory, runVars,
                   conn_hist, framerVars>>

\* line 139: read_http(&mut host_stream), start line first ...
ReadResponseLine(d) ==
    /\ pc[d] = "read_response"
    /\ \E line \in StartLines :
          IF ReadStartLine(line) = "panic"
          THEN Unwind(d)
          ELSE /\ response' = [response EXCEPT ![d] = ReadStartLine(line)]
               /\ pc' = [pc EXCEPT ![d] = "read_response_rest"]
               /\ UNCHANGED <<hosts, host_index, hosts_lock, index_lock,
                              failures, request, host_stream, backend_in,
                              client_out, outcome, monVars, accepted,
                              dispHistory, runVars,
                              conn_hist, framerVars>>

\* ... then headers and body.
ReadResponseRest(d) ==
    /\ pc[d] = "read_response_rest"
    /\ \E rest \in Remainders :
          IF ReadRemainder(rest) = "panic"
          THEN Unwind(d)
          ELSE /\ IF ReadRemainder(rest) = "spin"
                  THEN /\ response' = response
                       /\ pc' = [pc EXCEPT ![d] = "read_response_spin"]
                  ELSE /\ response' = [response EXCEPT ![d] = ReadRemainder(rest)]
                       /\ pc' = [pc EXCEPT ![d] = "relay"]
               /\ UNCHANGED <<hosts, host_index, hosts_lock, index_lock,
                              failures, request, host_stream, backend_in,
                              client_out, outcome, monVars, accepted,
                              dispHistory, runVars,
                              conn_hist, framerVars>>

\* line 140: incoming.write_all(&response), then break.
Relay(d) ==
    /\ pc[d] = "relay"
    /\ client_out' = [client_out EXCEPT ![d] = "response"]
    /\ pc' = [pc EXCEPT ![d] = "report"]
    /\ UNCHANGED <<hosts, host_index, hosts_lock, index_lock, failures,
                   request, host_stream, backend_in, response, outcome,
                   monVars, accepted, dispHistory, runVars,
                   conn_hist, framerVars>>

\* lines 155-159: log the outcome.
Report(d) ==
    /\ pc[d] = "report"
    /\ outcome' = [outcome EXCEPT ![d] =
                      IF Exhausted(failures[d]) THEN "NoHostsAvailable"
                                                ELSE "Routed"]
    /\ pc' = [pc EXCEPT ![d] = "return"]
    /\ UNCHANGED <<hosts, host_index, hosts_lock, index_lock, failures,
                   request, host_stream, backend_in, response, client_out,
                   monVars, accepted, dispHistory, runVars,
                   conn_hist, framerVars>>

\* line 160: the function returns and the task ends: its locals, both
\* guards and both streams are dropped; the slot is free again.
Return(d) ==
    /\ pc[d] = "return"
    /\ pc' = [pc EXCEPT ![d] = "idle"]
    /\ hosts_lock' = Unlock(hosts_lock, d)
    /\ index_lock' = Unlock(index_lock, d)
    /\ failures' = [failures EXCEPT ![d] = 0]
    /\ request' = [request EXCEPT ![d] = "none"]
    /\ host_stream' = [host_stream EXCEPT ![d] = NoHost]
    /\ backend_in' = [backend_in EXCEPT ![d] = {}]
    /\ response' = [response EXCEPT ![d] = "none"]
    /\ client_out' = [client_out EXCEPT ![d] = "none"]
    /\ outcome' = [outcome EXCEPT ![d] = "none"]
    /\ tried' = [tried EXCEPT ![d] = {}]
    /\ attempts' = [attempts EXCEPT ![d] = 0]
    /\ advances' = [advances EXCEPT ![d] = 0]
    /\ all_down' = [all_down EXCEPT ![d] = FALSE]
    /\ sel_from' = [sel_from EXCEPT ![d] = 0]
    /\ pass_from' = [pass_from EXCEPT ![d] = 0]
    /\ UNCHANGED <<hosts, host_index, monVars, accepted, runVars,
                   conn_hist, framerVars>>

(***************************************************************************)
(* The health monitor (main.rs:228-236, check_health 181-196).             *)
(***************************************************************************)
\* line 183: hosts.lock().await; the loop then starts the first probe.
MonLock ==
    /\ mpc = "lock"
    /\ CanLock(hosts_lock)
    /\ hosts_lock' = hosts_lock \cup {Monitor}
    /\ mpc' = "probe"
    /\ mi' = 0
    /\ mon_log' = "none"
    /\ UNCHANGED <<hosts, host_index, index_lock, pc, dispLocals, accepted,
                   dispHistory, runVars,
                   conn_hist, framerVars>>

\* lines 187-193: with VERBOSE > 0 one line is printed for the host just
\* probed, "is healthy" or "is unhealthy", whatever the flag was before.
HealthEvent(was, ok) ==
    IF was = ok THEN "repeat" ELSE "transition"

\* line 186: host.healthy = healthy(&host).await; ok is the probe's result
\* (a 2xx answer or not, lines 171-178).
MonProbeDone(ok) ==
    /\ mpc = "probe"
    /\ hosts' = [hosts EXCEPT ![mi] = ok]
    /\ mon_log' = HealthEvent(hosts[mi], ok)
    /\ RunAfterFlags(hosts')
    /\ IF mi + 1 < NumHosts
       THEN /\ mi' = mi + 1
            /\ mpc' = "probe"
       ELSE /\ mi' = 0
            /\ mpc' = "release"
    /\ UNCHANGED <<host_index, hosts_lock, index_lock, pc, dispLocals,
                   accepted, dispHistory,
                   conn_hist, framerVars>>

\* line 196: check_health returns and its guard is dropped; the task then
\* sleeps (line 233).
MonRelease ==
    /\ mpc = "release"
    /\ hosts_lock' = Unlock(hosts_lock, Monitor)
    /\ mpc' = "sleep"
    /\ mon_log' = "none"
    /\ UNCHANGED <<hosts, host_index, index_lock, pc, dispLocals, mi,
                   accepted, dispHistory, runVars,
                   conn_hist, framerVars>>

\* line 233: the sleep ends and the next cycle begins.
MonWake ==
    /\ mpc = "sleep"
    /\ mpc' = "lock"
    /\ mon_log' = "none"
    /\ UNCHANGED <<hosts, host_index, hosts_lock, index_lock, pc, dispLocals,
                   mi, accepted, dispHistory, runVars,
                   conn_hist, framerVars>>

Next ==
    \/ \E d \in Dispatchers : Accept(d)
    \/ \E d \in Dispatchers : ReadRequestLine(d)
    \/ \E d \in Dispatchers : ReadRequestRest(d)
    \/ \E d \in Dispatchers : LockIndex(d)
    \/ \E d \in Dispatchers : LockHosts(d)
    \/ \E d \in Dispatchers : SelectStep(d)
    \/ \E d \in Dispatchers : Check(d)
    \/ \E d \in Dispatchers : ConnectOk(d)
    \/ \E d \in Dispatchers : ConnectFail(d)
    \/ \E d \in Dispatchers : WriteRequest(d)
    \/ \E d \in Dispatchers : ReadResponseLine(d)
    \/ \E d \in Dispatchers : ReadResponseRest(d)
    \/ \E d \in Dispatchers : Relay(d)
    \/ \E d \in Dispatchers : Report(d)
    \/ \E d \in Dispatchers : Return(d)
    \/ MonLock
    \/ \E ok \in BOOLEAN : MonProbeDone(ok)
    \/ MonRelease
    \/ MonWake

Spec == Init /\ [][Next]_vars

PcValues == {"idle", "read_request", "read_request_rest", "read_request_spin",
             "lock_index", "lock_hosts", "select", "check", "connect",
             "write_request", "read_response", "read_response_rest",
             "read_response_spin", "relay", "report", "return", "panicked"}

TypeOK ==
    /\ hosts \in [HostIds -> BOOLEAN]
    /\ host_index \in HostIds
    /\ hosts_lock \subseteq Tasks
    /\ index_lock \subseteq Dispatchers
    /\ pc \in [Dispatchers -> PcValues]
    /\ failures \in [Dispatchers -> 0..NumHosts]
    /\ request \in [Dispatchers -> {"none", "partial", "complete", "padded"}]
    /\ response \in [Dispatchers -> {"none", "partial", "complete", "padded"}]
    /\ host_stream \in [Dispatchers -> HostIds \cup {NoHost}]
    /\ backend_in \in [Dispatchers -> SUBSET HostIds]
    /\ client_out \in [Dispatchers -> {"none", "response"}]
    /\ outcome \in [Dispatchers -> {"none", "Routed", "NoHostsAvailable"}]
    /\ mpc \in {"lock", "probe", "release", "sleep"}
    /\ mi \in HostIds
    /\ mon_log \in {"none", "repeat", "transition"}
    /\ accepted \in 0..MaxRequests
    /\ Len(served) <= MaxRequests
    /\ conn_hist \in {"none", "failed", "routed"}
    /\ fpc = "unused"

(***************************************************************************)
(* read_http, byte by byte (lines 29-94).  A stream carries a start line,  *)
(* header lines, possibly the blank line, and the bytes after it; it then  *)
(* closes.  Bytes are numbers 0..255.                                      *)
(***************************************************************************)
CR == 13
LF == 10
Colon == 58
Space == 32
Tab == 9
Plus == 43
Zero == 48
TextByte == 120
NonTextByte == 255

CRLF == <<CR, LF>>

\* "Content-Length"
ContentLengthName == <<67, 111, 110, 116, 101, 110, 116, 45,
                       76, 101, 110, 103, 116, 104>>

\* char::is_whitespace on ASCII.
Whitespace == {Tab, LF, 11, 12, CR, Space}

RECURSIVE Flatten(_)
Flatten(lines) ==
    IF lines = <<>> THEN <<>> ELSE Head(lines) \o Flatten(Tail(lines))

RECURSIVE Digits(_)
\* Decimal text of n.
Digits(n) ==
    IF n < 10 THEN <<Zero + n>> ELSE Digits(n \div 10) \o <<Zero + (n % 10)>>

\* The header lines the streams are made of, without their CRLF.
OtherHeader == <<TextByte, Colon, Space, TextByte>>
LengthHeader(n) == ContentLengthName \o <<Colon, Space>> \o Digits(n)
SpacedLengthHeader(n) ==
    ContentLengthName \o <<Colon, Space, Space>> \o Digits(n) \o <<Tab>>
BadLengthHeader == ContentLengthName \o <<Colon, Space, TextByte>>
NonTextHeader == <<TextByte, Colon, Space, NonTextByte>>

HeaderKinds ==
    {[kind |-> "other", n |-> 0], [kind |-> "spaced", n |-> 1],
     [kind |-> "bad", n |-> 0], [kind |-> "nontext", n |-> 0]}
    \cup {[kind |-> "length", n |-> n] : n \in 0..MaxBody}

HeaderLine(h) ==
    CASE h.kind = "other" -> OtherHeader
      [] h.kind = "length" -> LengthHeader(h.n)
      [] h.kind = "spaced" -> SpacedLengthHeader(h.n)
      [] h.kind = "bad" -> BadLengthHeader
      [] h.kind = "nontext" -> NonTextHeader

SeqsUpTo(S, n) == UNION {[1..k -> S] : k \in 0..n}

Messages ==
    [start : {<<TextByte>>, <<NonTextByte>>},
     headers : SeqsUpTo(HeaderKinds, MaxHeaders),
     terminated : {TRUE},
     tail : SeqsUpTo({LF, NonTextByte}, MaxBody + 1)]
    \cup
    [start : {<<TextByte>>, <<NonTextByte>>},
     headers : SeqsUpTo(HeaderKinds, MaxHeaders),
     terminated : {FALSE},
     tail : {<<>>}]

\* The bytes of the stream.
Wire(m) ==
    m.start \o CRLF
    \o Flatten([i \in 1..Len(m.headers) |-> HeaderLine(m.headers[i]) \o CRLF])
    \o (IF m.terminated THEN CRLF \o m.tail ELSE <<>>)

\* read_until(b'\n'): the length of what one call takes off the stream.
LineEnd(s) ==
    IF \E i \in 1..Len(s) : s[i] = LF
    THEN CHOOSE i \in 1..Len(s) : s[i] = LF /\ \A j \in 1..(i - 1) : s[j] # LF
    ELSE Len(s)

\* String::from_utf8(..).is_ok(), for streams whose only byte above 127 is
\* NonTextByte, which no UTF-8 text contains.
Utf8(s) == \A i \in 1..Len(s) : s[i] < 128

\* Position of the first ": " in s, 0 when there is none.
FindSep(s) ==
    IF \E i \in 1..(Len(s) - 1) : s[i] = Colon /\ s[i + 1] = Space
    THEN CHOOSE i \in 1..(Len(s) - 1) :
            /\ s[i] = Colon /\ s[i + 1] = Space
            /\ \A j \in 1..(i - 1) : ~(s[j] = Colon /\ s[j + 1] = Space)
    ELSE 0

RECURSIVE Split(_)
\* header_line.split(": ").collect()
Split(s) ==
    IF FindSep(s) = 0 THEN <<s>>
    ELSE <<SubSeq(s, 1, FindSep(s) - 1)>>
         \o Split(SubSeq(s, FindSep(s) + 2, Len(s)))

\* A strip that keeps everything.
StripNothing(s) == s

IsInk(c) == c \notin Whitespace

\* strip(s), lines 19-21.
Strip(s) == SelectSeq(s, IsInk)

IsDigit(c) == c \in Zero..(Zero + 9)

\* parse::<usize>() accepts an optional '+' and at least one digit.
Unsigned(s) == IF s # <<>> /\ s[1] = Plus THEN Tail(s) ELSE s

Parsable(s) ==
    /\ Unsigned(s) # <<>>
    /\ \A i \in 1..Len(Unsigned(s)) : IsDigit(Unsigned(s)[i])

RECURSIVE Value(_)
Value(ds) ==
    IF ds = <<>> THEN 0
    ELSE 10 * Value(SubSeq(ds, 1, Len(ds) - 1)) + (ds[Len(ds)] - Zero)

Parse(s) == Value(Unsigned(s))

Zeros(n) == [i \in 1..n |-> 0]

InitFramer ==
    /\ hosts = InitialHosts
    /\ host_index = 0
    /\ hosts_lock = {}
    /\ index_lock = {}
    /\ pc = [d \in Dispatchers |-> "idle"]
    /\ failures = [d \in Dispatchers |-> 0]
    /\ request = [d \in Dispatchers |-> "none"]
    /\ host_stream = [d \in Dispatchers |-> NoHost]
    /\ backend_in = [d \in Dispatchers |-> {}]
    /\ response = [d \in Dispatchers |-> "none"]
    /\ client_out = [d \in Dispatchers |-> "none"]
    /\ outcome = [d \in Dispatchers |-> "none"]
    /\ mpc = "lock"
    /\ mi = 0
    /\ mon_log = "none"
    /\ accepted = 0
    /\ tried = [d \in Dispatchers |-> {}]
    /\ attempts = [d \in Dispatchers |-> 0]
    /\ advances = [d \in Dispatchers |-> 0]
    /\ all_down = [d \in Dispatchers |-> FALSE]
    /\ sel_from = [d \in Dispatchers |-> 0]
    /\ pass_from = [d \in Dispatchers |-> 0]
    /\ served = <<>>
    /\ run_cursor = 0
    /\ scn = <<>>
    /\ conn_hist = "none"
    /\ sent \in Messages
    /\ reader = Wire(sent)
    /\ buf = <<>>
    /\ content_length = 0
    /\ fpc = "start"

balancerVars ==
    <<hosts, host_index, hosts_lock, index_lock, pc, dispLocals, monVars,
      accepted, dispHistory, runVars, conn_hist>>

\* lines 37-46: the first read_until; with VERBOSE >= 1 the line is decoded
\* and the unwrap panics on a line that is not text.  A read that fails
\* leaves buf empty and goes on.
FrStartLine ==
    /\ fpc = "start"
    /\ LET line == SubSeq(reader, 1, LineEnd(reader)) IN
       /\ reader' = SubSeq(reader, LineEnd(reader) + 1, Len(reader))
       /\ IF Utf8(line)
          THEN /\ buf' = line
               /\ fpc' = "headers"
          ELSE /\ buf' = <<>>
               /\ fpc' = "panicked"
    /\ UNCHANGED <<sent, content_length, balancerVars>>

\* lines 49-72: one pass of the header loop.  At the end of the stream
\* read_until returns Ok(0), or Err, on every pass and the loop has no exit.
FrHeaderLine ==
    /\ fpc = "headers"
    /\ LET line == SubSeq(reader, 1, LineEnd(reader))
           header == Split(line)
       IN
       /\ reader' = SubSeq(reader, LineEnd(reader) + 1, Len(reader))
       /\ IF reader = <<>>
          THEN /\ fpc' = "spin"
               /\ UNCHANGED <<buf, content_length>>
          ELSE IF \/ ~Utf8(line)
                  \/ /\ header[1] = ContentLengthName
                     /\ \/ Len(header) < 2
                        \/ ~Parsable(Strip(header[2]))
          THEN /\ fpc' = "panicked"
               /\ buf' = <<>>
               /\ UNCHANGED content_length
          ELSE /\ content_length' =
                      IF header[1] = ContentLengthName
                      THEN Parse(Strip(header[2]))
                      ELSE content_length
               /\ buf' = buf \o line
               /\ fpc' = IF line = CRLF THEN "body" ELSE "headers"
    /\ UNCHANGED <<sent, balancerVars>>

\* lines 75-93: body = vec![0; content_length]; the result of read_exact is
\* dropped, so what the stream could not fill stays zero.
FrBody ==
    /\ fpc = "body"
    /\ LET got == IF Len(reader) < content_length THEN Len(reader)
                                                ELSE content_length
       IN
       /\ buf' = buf \o SubSeq(reader, 1, got) \o Zeros(content_length - got)
       /\ reader' = SubSeq(reader, got + 1, Len(reader))
    /\ fpc' = "returned"
    /\ UNCHANGED <<sent, content_length, balancerVars>>

NextFramer == FrStartLine \/ FrHeaderLine \/ FrBody

SpecFramer == InitFramer /\ [][NextFramer]_vars

(***************************************************************************)
(* Properties.                                                             *)
(***************************************************************************)
Count(h, seq) == Cardinality({k \in 1..Len(seq) : seq[k] = h})

CeilDiv(m, n) == (m + n - 1) \div n

\* The hosts at cyclic offsets 1..k-1 after position from.
Between(from, k) == {(from + j) % NumHosts : j \in 1..(k - 1)}

\* Cyclic distance from position from to host h, in 1..NumHosts.
Offset(from, h) ==
    CHOOSE k \in 1..NumHosts : (from + k) % NumHosts = h

IOStates == {"connect", "write_request", "read_response",
             "read_response_rest", "read_response_spin", "relay"}

\* C1: since the last change of a healthy flag, with every host healthy and
\* every connect succeeding, the k-th request is routed to the host k places
\* after the cursor, and once at least NumHosts requests are routed every
\* host has received floor(M/N) or ceil(M/N) of the M requests.
RoundRobinFair ==
    /\ \A k \in 1..Len(served) : served[k] = (run_cursor + k) % NumHosts
    /\ Len(served) >= NumHosts =>
         \A h \in HostIds :
            Count(h, served) \in {Len(served) \div NumHosts,
                                  CeilDiv(Len(served), NumHosts)}

RoundRobinWitness == Len(served) = NumHosts + 1

\* C2: a host whose connect failed is flagged unhealthy while the next
\* candidate is selected; the host a request is connected to is flagged
\* healthy, is none of the hosts that failed, and every host between the
\* cursor at the start of the request and it is flagged unhealthy; a request
\* gives up only when no host is flagged healthy.
Failover ==
    \A d \in Dispatchers :
       /\ pc[d] \in {"select", "check", "connect"} =>
             \A h \in tried[d] : ~hosts[h]
       /\ host_stream[d] # NoHost =>
             /\ host_stream[d] \notin tried[d]
             /\ hosts[host_stream[d]]
             /\ host_stream[d] = host_index
             /\ \A h \in Between(sel_from[d], Offset(sel_from[d], host_stream[d])) :
                   ~hosts[h]
       /\ (pc[d] \in {"report", "return"} /\ host_stream[d] = NoHost) =>
             NoneHealthy(hosts)

FailoverWitness ==
    \E d \in Dispatchers : host_stream[d] # NoHost /\ tried[d] # {}

\* C3: a request that found every host flagged unhealthy when it got the
\* registry makes no connect attempt, writes to no backend, and ends in the
\* NoHostsAvailable outcome.
ExhaustionNoTraffic ==
    \A d \in Dispatchers :
       all_down[d] =>
          /\ attempts[d] = 0
          /\ pc[d] \notin IOStates
          /\ host_stream[d] = NoHost
          /\ backend_in[d] = {}
          /\ client_out[d] = "none"
          /\ pc[d] = "return" => outcome[d] = "NoHostsAvailable"

ExhaustionWitness ==
    \E d \in Dispatchers :
       all_down[d] /\ pc[d] = "return" /\ outcome[d] = "NoHostsAvailable"

\* C4: the candidate of a selection pass is the first host flagged healthy
\* strictly after the cursor in cyclic order and the cursor rests on it; and
\* in the scenario (routed to a, a goes down, routed, a comes back, routed)
\* the second request goes to the host after a and the third to the host
\* after that one.
RotationContinues ==
    /\ \A d \in Dispatchers :
          pc[d] = "connect" =>
             /\ host_index = (pass_from[d] + failures[d] + 1) % NumHosts
             /\ hosts[host_index]
             /\ \A h \in Between(pass_from[d], failures[d] + 1) : ~hosts[h]
    /\ \A d \in Dispatchers :
          host_stream[d] # NoHost => host_index = host_stream[d]
    /\ Len(scn) >= 3 => scn[3] = (scn[1] + 1) % NumHosts
    /\ Len(scn) = 5 => scn[5] = (scn[1] + 2) % NumHosts

RotationScenarioWitness == Len(scn) = 5

\* Dispatcher d runs one iteration of the selection loop in this step.
SelectionAttempt(d) ==
    /\ pc[d] = "select"
    /\ failures[d] < NumHosts
    /\ (pc'[d] # pc[d] \/ failures'[d] # failures[d])

\* C5: the cursor is always an index of the host list, and every iteration
\* of the selection loop, whatever it finds, moves it by exactly one place
\* modulo the length of the list; nothing else moves it.
CursorAdvances ==
    /\ [](host_index \in HostIds)
    /\ [][(\E d \in Dispatchers : SelectionAttempt(d))
             => host_index' = (host_index + 1) % NumHosts]_vars
    /\ [][host_index' # host_index
             => /\ host_index' = (host_index + 1) % NumHosts
                /\ \E d \in Dispatchers : SelectionAttempt(d)]_vars

CursorWitness ==
    \E d \in Dispatchers :
       tried[d] # {} /\ failures[d] > 0 /\ host_index = 0

\* C6: no dispatcher holds a registry lock while it connects, writes the
\* request, reads the response or relays it.
DispatcherIOUnlocked ==
    \A d \in Dispatchers :
       pc[d] \in IOStates => (d \notin hosts_lock /\ d \notin index_lock)

\* C7: the monitor does not hold the host-list lock while a probe is in
\* flight.
MonitorProbeUnlocked == mpc = "probe" => Monitor \notin hosts_lock

\* Task t is between acquiring and releasing the host list.
InHostsSection(t) ==
    IF t = Monitor
    THEN mpc \in {"probe", "release"}
    ELSE pc[t] \in {"select", "check", "report", "return"} \cup IOStates

\* Dispatcher d is between acquiring and releasing the cursor.
InIndexSection(d) == pc[d] = "lock_hosts" \/ InHostsSection(d)

\* C8: at most one task at a time is between acquiring and releasing the
\* host list, and at most one between acquiring and releasing the cursor;
\* a task in such a section is the holder of the lock.
SerializedAccess ==
    /\ Cardinality({t \in Tasks : InHostsSection(t)}) <= 1
    /\ Cardinality({d \in Dispatchers : InIndexSection(d)}) <= 1
    /\ \A t \in Tasks : InHostsSection(t) => hosts_lock = {t}
    /\ \A d \in Dispatchers : InIndexSection(d) => index_lock = {d}

SerializedWitness ==
    \E d, e \in Dispatchers :
       /\ pc[d] = "select"
       /\ pc[e] = "lock_index"
       /\ mpc = "lock"

\* C9: when a request that ended in NoHostsAvailable returns, and its client
\* connection is closed, a response has been written to that client.
ExhaustionReported ==
    \A d \in Dispatchers :
       (pc[d] = "return" /\ outcome[d] = "NoHostsAvailable")
          => client_out[d] # "none"

\* C10: nothing is written to a backend before read_http has read the
\* client's request to its end and returned it, nothing is read from or
\* written for the response before that write, nothing is written to the
\* client before read_http has returned the backend's response, and the
\* request is written to the one backend whose connect succeeded.
ForwardAfterRead ==
    \A d \in Dispatchers :
       /\ backend_in[d] # {} =>
             /\ Returned(request[d])
             /\ host_stream[d] # NoHost
             /\ backend_in[d] = {host_stream[d]}
       /\ response[d] # "none" => backend_in[d] # {}
       /\ client_out[d] # "none" =>
             /\ Returned(response[d])
             /\ Returned(request[d])

ForwardWitness ==
    \E d \in Dispatchers :
       pc[d] = "report" /\ client_out[d] = "response" /\ backend_in[d] # {}

\* C11: the monitor logs a health event for a host only when the probe
\* result differs from the flag the host had; a probe that repeats the
\* host's state logs nothing.
HealthEventsOnlyOnChange == mon_log # "repeat"

\* C15: the cursor advances made for one request (hosts skipped, hosts
\* whose connect failed, the host finally chosen) never number more than the
\* hosts, and after a failed connect selection goes on from the failed host.
AdvancesBounded ==
    \A d \in Dispatchers :
       /\ advances[d] <= NumHosts
       /\ (pc[d] = "select" /\ failures[d] = 0 /\ tried[d] # {}) =>
             (host_index \in tried[d] /\ pass_from[d] = host_index)

\* The monitor assigns the flag of the host it has just probed.
MonitorWrites ==
    /\ mpc = "probe"
    /\ Monitor \in hosts_lock
    /\ \E ok \in BOOLEAN : hosts' = [hosts EXCEPT ![mi] = ok]

\* Dispatcher d, whose connect to the host under the cursor has just failed,
\* sets that host's flag to unhealthy.
DispatcherMarks(d) ==
    /\ pc[d] = "connect"
    /\ pc'[d] = "select"
    /\ attempts'[d] = attempts[d] + 1
    /\ hosts[host_index]
    /\ hosts' = [hosts EXCEPT ![host_index] = FALSE]

\* C16: a healthy flag changes only when the monitor assigns the result of
\* a probe or when a dispatcher sets to unhealthy the one host whose connect
\* has just failed; a flag goes from unhealthy to healthy only by the
\* monitor; and the host list keeps its members and their order.
HealthWriters ==
    /\ [](DOMAIN hosts = HostIds)
    /\ [][hosts' # hosts =>
             (MonitorWrites \/ \E d \in Dispatchers : DispatcherMarks(d))]_vars
    /\ [][\A h \in HostIds :
             (~hosts[h] /\ hosts'[h]) => (MonitorWrites /\ mi = h)]_vars

HealthWritersWitness ==
    \E d \in Dispatchers :
       /\ pc[d] = "select"
       /\ tried[d] # {}
       /\ \E h \in HostIds : hosts[h]
       /\ accepted >= 2

\* Task t is suspended in hosts.lock().await.
WaitsHosts(t) ==
    IF t = Monitor THEN mpc = "lock" ELSE pc[t] = "lock_hosts"

\* Dispatcher d is suspended in host_index.lock().await.
WaitsIndex(d) == pc[d] = "lock_index"

\* The tasks that hold the lock task t is waiting for.
WaitsFor(t) ==
    (IF WaitsHosts(t) THEN hosts_lock \ {t} ELSE {})
       \cup (IF t \in Dispatchers /\ WaitsIndex(t) THEN index_lock \ {t} ELSE {})

RECURSIVE WaitReach(_, _)
WaitReach(S, n) ==
    IF n = 0 THEN S
    ELSE WaitReach(S \cup UNION {WaitsFor(t) : t \in S}, n - 1)

\* A task has finished (or has not started) its use of the registry.
Finished(t) ==
    IF t = Monitor THEN mpc = "sleep" ELSE pc[t] \in {"idle", "panicked"}

\* C17: dispatchers hold the host-list lock only inside the cursor lock, the
\* monitor never holds the cursor lock, a finished task holds no lock, no
\* task waits (through any chain of lock holders) for a lock that it holds
\* itself or that is held by a task waiting for it, and whenever a lock is
\* free and some task waits for it, one of the waiting tasks can take it.
LockDiscipline ==
    /\ \A d \in Dispatchers : d \in hosts_lock => d \in index_lock
    /\ Monitor \notin index_lock
    /\ \A t \in Tasks :
          Finished(t) => (t \notin hosts_lock /\ t \notin index_lock)
    /\ \A t \in Tasks : t \notin WaitReach(WaitsFor(t), Cardinality(Tasks))
    /\ (index_lock = {} /\ \E d \in Dispatchers : WaitsIndex(d)) =>
          \E d \in Dispatchers : WaitsIndex(d) /\ ENABLED LockIndex(d)
    /\ (hosts_lock = {} /\ \E t \in Tasks : WaitsHosts(t)) =>
          \/ \E d \in Dispatchers : WaitsHosts(d) /\ ENABLED LockHosts(d)
          \/ WaitsHosts(Monitor) /\ ENABLED MonLock

LockDisciplineWitness ==
    \E d, e \in Dispatchers :
       /\ WaitsIndex(e)
       /\ WaitsHosts(d)
       /\ d \in index_lock
       /\ Monitor \in hosts_lock

IsLength(h) == h.kind \in {"length", "spaced"}

\* The value of the last Content-Length header of m, 0 when it has none.
Declared(m) ==
    LET at == {i \in 1..Len(m.headers) : IsLength(m.headers[i])} IN
    IF at = {} THEN 0
    ELSE m.headers[CHOOSE i \in at : \A j \in at : j <= i].n

HeadersWellFormed(m) ==
    /\ m.start = <<TextByte>>
    /\ \A i \in 1..Len(m.headers) :
          m.headers[i].kind \in {"other", "length", "spaced"}
    /\ m.terminated

WellFormed(m) == HeadersWellFormed(m) /\ Len(m.tail) >= Declared(m)

Truncated(m) == HeadersWellFormed(m) /\ Len(m.tail) < Declared(m)

\* Start line, header lines, blank line and the declared body bytes of m.
Received(m) ==
    m.start \o CRLF
    \o Flatten([i \in 1..Len(m.headers) |-> HeaderLine(m.headers[i]) \o CRLF])
    \o CRLF \o SubSeq(m.tail, 1, Declared(m))

\* C12: when the stream closes after the header block with fewer body bytes
\* than Content-Length declares, read_http does not return a message.
TruncatedBodyFails == Truncated(sent) => fpc # "returned"

\* C13: on a well-formed message read_http neither panics nor loops, its
\* header loop never meets the end of the stream, the length it has when it
\* reaches the body is the declared one, and what it returns is the start
\* line, the header lines with the blank line, and the first Content-Length
\* bytes after it (none without the header, the last value when it
\* repeats), byte for byte.
FramingExact ==
    WellFormed(sent) =>
       /\ fpc \in {"start", "headers", "body", "returned"}
       /\ fpc = "headers" => reader # <<>>
       /\ fpc = "body" => content_length = Declared(sent)
       /\ fpc = "returned" => buf = Received(sent)

FramingExactWitness ==
    /\ fpc = "returned"
    /\ WellFormed(sent)
    /\ sent.headers = <<[kind |-> "length", n |-> 1],
                        [kind |-> "length", n |-> 2]>>
    /\ sent.tail = <<NonTextByte, LF, LF>>
    /\ Len(buf) = Len(Wire(sent)) - 1

\* C14: a handler whose read_http met a malformed message (it panicked, or
\* the stream ended before the blank line) holds neither registry lock.
FramingErrorReleases ==
    \A d \in Dispatchers :
       pc[d] \in {"panicked", "read_request_spin", "read_response_spin"} =>
          (d \notin hosts_lock /\ d \notin index_lock)

\* The first connect that succeeds, made while every host is flagged healthy.
FirstRouting(d) ==
    /\ pc[d] = "connect"
    /\ pc'[d] = "write_request"
    /\ conn_hist # "routed"
    /\ AllHealthy(hosts)

\* A request that found every host flagged unhealthy ends in NoHostsAvailable
\* without a connect attempt.
NothingBeforeHealthy ==
    \A d \in Dispatchers :
       all_down[d] =>
          /\ attempts[d] = 0
          /\ pc[d] # "connect"
          /\ pc[d] = "return" => outcome[d] = "NoHostsAvailable"

LoopStates == {"select", "check", "connect", "write_request",
               "read_response", "read_response_rest", "relay", "report"}

PcRank(d) ==
    CASE pc[d] = "select" -> 8 + (NumHosts - failures[d])
      [] pc[d] = "check" -> 7
      [] pc[d] = "connect" -> 6
      [] pc[d] = "write_request" -> 5
      [] pc[d] = "read_response" -> 4
      [] pc[d] = "read_response_rest" -> 3
      [] pc[d] = "relay" -> 2
      [] pc[d] = "report" -> 1
      [] OTHER -> 0

\* A measure of what is left of the loop of dispatcher d: the number of
\* hosts flagged healthy, then the position inside the current pass.
Rank(d) ==
    Cardinality({h \in HostIds : hosts[h]}) * (NumHosts + 9) + PcRank(d)

\* C19: a dispatcher connects to no host twice for one request; every step
\* it takes in its loop, other than a read that does not finish, lowers a
\* measure that cannot go below 0, a failed connect by lowering the number of
\* hosts flagged healthy; nothing else changes a flag while it holds the
\* registry; and it returns with the outcome Routed or NoHostsAvailable.
DispatcherTerminates ==
    /\ [](\A d \in Dispatchers :
            /\ pc[d] = "connect" => host_index \notin tried[d]
            /\ attempts[d] <= NumHosts
            /\ d \in hosts_lock => \A h \in tried[d] : ~hosts[h]
            /\ pc[d] = "return" =>
                  outcome[d] \in {"Routed", "NoHostsAvailable"})
    /\ [][\A d \in Dispatchers :
            (pc[d] \in LoopStates
                /\ (pc'[d] # pc[d] \/ failures'[d] # failures[d])) =>
               \/ pc'[d] \in {"panicked", "read_response_spin"}
               \/ Rank(d)' < Rank(d)]_vars
    /\ [][\A d \in Dispatchers :
            (pc[d] = "connect" /\ pc'[d] = "select") =>
               Cardinality({h \in HostIds : hosts'[h]})
                  < Cardinality({h \in HostIds : hosts[h]})]_vars
    /\ [][\A d \in Dispatchers :
            (d \in hosts_lock /\ d \in hosts_lock' /\ hosts' # hosts) =>
               (pc[d] = "connect" /\ pc'[d] = "select")]_vars

DispatcherTerminatesWitness ==
    \E d \in Dispatchers :
       /\ pc[d] = "return"
       /\ outcome[d] = "NoHostsAvailable"
       /\ tried[d] = HostIds
       /\ attempts[d] = NumHosts

\* C20: a request that found every host flagged unhealthy returns with the
\* cursor where it found it, after NumHosts advances, and changes no flag;
\* any other request that ends in NoHostsAvailable returns with the cursor
\* on the host of its last failed connect.
ExhaustionFrame ==
    /\ [](\A d \in Dispatchers :
            (pc[d] = "return" /\ outcome[d] = "NoHostsAvailable") =>
               /\ NoneHealthy(hosts)
               /\ all_down[d] =>
                     /\ host_index = sel_from[d]
                     /\ advances[d] = NumHosts
                     /\ tried[d] = {}
               /\ ~all_down[d] =>
                     /\ tried[d] # {}
                     /\ host_index = pass_from[d]
                     /\ host_index \in tried[d])
    /\ [][\A d \in Dispatchers :
            (all_down[d] /\ d \in hosts_lock) => hosts' = hosts]_vars
    /\ [][\A d \in Dispatchers :
            (pc[d] = "connect" /\ pc'[d] = "select") =>
               pass_from'[d] = host_index]_vars

ExhaustionFrameWitness ==
    \E d \in Dispatchers :
       /\ pc[d] = "return"
       /\ outcome[d] = "NoHostsAvailable"
       /\ all_down[d]
       /\ advances[d] = NumHosts
       /\ host_index = sel_from[d]
       /\ host_index # 0
====
